---- MODULE Spec2Model ----
(***************************************************************************)
(* Verification model of the stateful parts of responsive-reusable-package.*)
(*                                                                         *)
(*   ResponsiveButton    (src/components/ResponsiveButton.jsx): the        *)
(*       success/error feedback cycle: three effects, handleSuccess,       *)
(*       handleError and the setTimeout revert callbacks.                  *)
(*   ResponsiveContainer (src/components/ResponsiveContainer.jsx and the   *)
(*       later copy src/unnamed/part_000): the modal's escape-key effect,  *)
(*       scroll-lock effect, handleBackdropClick and the render branch.    *)
(*                                                                         *)
(* React is modelled as the code relies on it: a render commits props and  *)
(* state, effects whose dependency list changed run against the values of  *)
(* that render (their closure), state updates queued by effects or by a    *)
(* timer callback are applied in order and committed as one re-render.     *)
(* The variable ev names the operation that produced the current state,    *)
(* with its inputs, and calls holds the caller-supplied callbacks that     *)
(* operation invoked, in order.                                            *)
(***************************************************************************)
EXTENDS Integers, Sequences, FiniteSets, TLC

VARIABLES
    \* ---- ResponsiveButton: props
    variant, children, disabled, showSuccess, showError,
    successMessage, errorMessage, feedbackDuration, onActionComplete,
    loading, onClick, debounceMs,
    \* ---- ResponsiveButton: useState cells and React bookkeeping
    currentVariant, currentContent, isShowingFeedback,
    mounted, pendingEffects, timers,
    \* ---- ResponsiveContainer instances and the document they share
    container, dom, keydownListeners, scrollLock, bodyOverflow,
    \* ---- ResponsiveButton: positioning props and the style object of the
    \*      last render
    posProps, posStyles,
    \* ---- ResponsiveContainer: styling props and the class list of the
    \*      last render
    classProps, classNames,
    \* ---- useDarkMode: the hook's state cell, React bookkeeping and the
    \*      document it writes to
    isDarkMode, queuedDarkMode, darkEffects, darkMounted,
    prefersDark, mediaListeners, rootClasses,
    \* ---- observation of the last operation
    ev, calls

buttonProps == <<variant, children, disabled, showSuccess, showError,
                 successMessage, errorMessage, feedbackDuration, onActionComplete,
                 loading, onClick, debounceMs>>
buttonState == <<currentVariant, currentContent, isShowingFeedback,
                 mounted, pendingEffects, timers>>
buttonVars == <<buttonProps, buttonState>>
containerVars == <<container, dom, keydownListeners, scrollLock, bodyOverflow>>
darkVars == <<isDarkMode, queuedDarkMode, darkEffects, darkMounted,
              prefersDark, mediaListeners, rootClasses>>
styleVars == <<posProps, posStyles, classProps, classNames, darkVars>>
vars == <<buttonVars, containerVars, styleVars, ev, calls>>

(***************************************************************************)
(* Bounds                                                                  *)
(***************************************************************************)
\* debounceMs ranges over 0..MaxDebounce clock ticks
MaxDebounce == 1
\* at most MaxSupplied positioning props are supplied to one button render
MaxSupplied == 3
\* at most MaxClassProps styling props are supplied to one container render
MaxClassProps == 2
\* feedbackDuration ranges over 1..MaxDuration clock ticks
MaxDuration == 1
\* the caller raises a feedback flag only while fewer than MaxTimers - 1
\* revert timers are pending, so at most MaxTimers are ever pending
MaxTimers == 2

Variants == {"primary", "secondary"}
Contents == {"Save", "Send"}
\* <<successMessage, errorMessage>>: both absent, or both supplied
Messages == {<<"", "">>, <<"Saved!", "Failed">>}
Callbacks == {"none", "cb"}

\* JavaScript truthiness of an optional string prop ("" stands for absent)
Truthy(s) == s # ""

(***************************************************************************)
(* ResponsiveButton                                                        *)
(***************************************************************************)

\* A pending setTimeout: the values its callback closes over, and the time
\* left until it is due.
NewTimer(kind) ==
    [kind |-> kind, variant |-> variant, children |-> children,
     onActionComplete |-> onActionComplete, remaining |-> feedbackDuration]

\* st collects the state updates and timers queued during one effect flush
handleSuccess(st) ==
    IF disabled THEN st
    ELSE [st EXCEPT !.isShowingFeedback = TRUE,
                    !.currentVariant = "success",
                    !.currentContent =
                        IF Truthy(successMessage) THEN successMessage ELSE @,
                    !.timers = Append(@, NewTimer("success"))]

handleError(st) ==
    IF disabled THEN st
    ELSE [st EXCEPT !.isShowingFeedback = TRUE,
                    !.currentVariant = "danger",
                    !.currentContent =
                        IF Truthy(errorMessage) THEN errorMessage ELSE @,
                    !.timers = Append(@, NewTimer("error"))]

\* useEffect(..., [variant, children, isShowingFeedback])
ResetEffect(st) ==
    IF ~isShowingFeedback
    THEN [st EXCEPT !.currentVariant = variant, !.currentContent = children]
    ELSE st

\* useEffect(..., [showSuccess]): every test reads the render's own values
SuccessEffect(st) ==
    IF showSuccess /\ ~disabled /\ ~isShowingFeedback THEN handleSuccess(st) ELSE st

\* useEffect(..., [showError])
ErrorEffect(st) ==
    IF showError /\ ~disabled /\ ~isShowingFeedback THEN handleError(st) ELSE st

\* (mutation of ChangedEffects: the showSuccess and showError effects have
\* no dependency list and run after every render)
ChangedEffects_EveryRender(v, c, ss, se) ==
    (IF v # variant \/ c # children THEN {"reset"} ELSE {})
      \cup {"success", "error"}

\* The effects React marks for a render whose dependencies changed
ChangedEffects(v, c, ss, se) ==
    (IF v # variant \/ c # children THEN {"reset"} ELSE {})
      \cup (IF ss # showSuccess THEN {"success"} ELSE {})
      \cup (IF se # showError THEN {"error"} ELSE {})

\* The parent re-renders the button with new props.
SetProps(v, c, d, ss, se) ==
    /\ mounted /\ pendingEffects = {}
    /\ <<v, c, d, ss, se>> # <<variant, children, disabled, showSuccess, showError>>
    /\ ((ss /\ ~showSuccess) \/ (se /\ ~showError)) => Len(timers) + 2 <= MaxTimers
    /\ variant' = v /\ children' = c /\ disabled' = d
    /\ showSuccess' = ss /\ showError' = se
    /\ pendingEffects' = ChangedEffects(v, c, ss, se)
    /\ ev' = [op |-> "props"]
    /\ calls' = <<>>
    /\ UNCHANGED <<successMessage, errorMessage, feedbackDuration, onActionComplete,
                   loading, onClick, debounceMs,
                   currentVariant, currentContent, isShowingFeedback, mounted,
                   timers>>
    /\ UNCHANGED <<containerVars, styleVars>>

\* React flushes the effects of the last commit, in declaration order, and
\* commits the re-render their state updates ask for.
FlushEffects ==
    /\ mounted /\ pendingEffects # {}
    /\ LET s0 == [currentVariant |-> currentVariant,
                  currentContent |-> currentContent,
                  isShowingFeedback |-> isShowingFeedback,
                  timers |-> timers]
           s1 == IF "reset" \in pendingEffects THEN ResetEffect(s0) ELSE s0
           s2 == IF "success" \in pendingEffects THEN SuccessEffect(s1) ELSE s1
           s3 == IF "error" \in pendingEffects THEN ErrorEffect(s2) ELSE s2
       IN /\ currentVariant' = s3.currentVariant
          /\ currentContent' = s3.currentContent
          /\ isShowingFeedback' = s3.isShowingFeedback
          /\ timers' = s3.timers
          /\ pendingEffects' =
                IF s3.isShowingFeedback # isShowingFeedback THEN {"reset"} ELSE {}
          /\ ev' = [op |-> "effects"]
    /\ calls' = <<>>
    /\ UNCHANGED <<buttonProps, mounted>>
    /\ UNCHANGED <<containerVars, styleVars>>

\* (mutation of CompletionCalls: both callbacks report 'success')
CompletionCalls_SameOutcome(t) ==
    IF t.onActionComplete # "none"
    THEN <<[fn |-> "onActionComplete", arg |-> "success"]>>
    ELSE <<>>

\* What the setTimeout callback of handleSuccess / handleError calls
CompletionCalls(t) ==
    IF t.onActionComplete # "none"
    THEN <<[fn |-> "onActionComplete", arg |-> t.kind]>>
    ELSE <<>>

\* (mutation of RevertedVariant: the callback reads the latest prop, not
\* the value it closed over)
RevertedVariant_Latest(t) == variant

\* The state the setTimeout callback asks for
RevertedVariant(t) == t.variant
RevertedContent(t) == t.children

Due(k) == timers[k].remaining = 0 /\ \A j \in 1..(k - 1) : timers[j].remaining # 0

RemoveAt(s, k) == [j \in 1..(Len(s) - 1) |-> IF j < k THEN s[j] ELSE s[j + 1]]

\* A revert timer expires and its callback runs.  Nothing ever clears a
\* timer, so it also runs after the button unmounted (its state writes are
\* then dropped by React, its onActionComplete call is not).
ExpireTimer(k) ==
    /\ pendingEffects = {}
    /\ Due(k)
    /\ LET t == timers[k]
       IN /\ IF mounted
             THEN /\ currentVariant' = RevertedVariant(t)
                  /\ currentContent' = RevertedContent(t)
                  /\ isShowingFeedback' = FALSE
                  /\ pendingEffects' = IF isShowingFeedback THEN {"reset"} ELSE {}
             ELSE UNCHANGED <<currentVariant, currentContent, isShowingFeedback,
                              pendingEffects>>
          /\ calls' = CompletionCalls(t)
          /\ ev' = [op |-> "expire", kind |-> t.kind]
    /\ timers' = RemoveAt(timers, k)
    /\ UNCHANGED <<buttonProps, mounted>>
    /\ UNCHANGED <<containerVars, styleVars>>

\* One unit of time passes; a due timer fires before time moves on.
Tick ==
    /\ pendingEffects = {}
    /\ timers # <<>>
    /\ \A k \in DOMAIN timers : timers[k].remaining > 0
    /\ timers' = [k \in DOMAIN timers |-> [timers[k] EXCEPT !.remaining = @ - 1]]
    /\ ev' = [op |-> "tick"]
    /\ calls' = <<>>
    /\ UNCHANGED <<buttonProps, currentVariant, currentContent, isShowingFeedback,
                   mounted, pendingEffects>>
    /\ UNCHANGED <<containerVars, styleVars>>

\* The parent removes the button.  No effect of the button returns a cleanup.
Unmount ==
    /\ mounted /\ pendingEffects = {}
    /\ mounted' = FALSE
    /\ ev' = [op |-> "unmount"]
    /\ calls' = <<>>
    /\ UNCHANGED <<buttonProps, currentVariant, currentContent, isShowingFeedback,
                   pendingEffects, timers>>
    /\ UNCHANGED <<containerVars, styleVars>>

\* First render of a button: useState takes its initial values from the props
ButtonInit ==
    /\ variant \in Variants /\ children \in Contents
    /\ disabled \in BOOLEAN /\ showSuccess \in BOOLEAN /\ showError \in BOOLEAN
    /\ \E m \in Messages : successMessage = m[1] /\ errorMessage = m[2]
    /\ feedbackDuration \in 1..MaxDuration
    /\ onActionComplete \in Callbacks
    /\ currentVariant = variant /\ currentContent = children
    /\ isShowingFeedback = FALSE
    /\ mounted = TRUE
    /\ pendingEffects = {"reset", "success", "error"}
    /\ timers = <<>>

\* (mutation of handleClick: the feedback phase does not block a click)
handleClick_FeedbackNotBlocking(e) ==
    IF disabled \/ loading
    THEN <<>>
    ELSE IF onClick # "none" THEN <<[fn |-> "onClick", arg |-> e]>> ELSE <<>>

\* const handleClick = (e) => { ... }: the callbacks it invokes
handleClick(e) ==
    IF disabled \/ loading \/ isShowingFeedback
    THEN <<>>
    ELSE IF onClick # "none" THEN <<[fn |-> "onClick", arg |-> e]>> ELSE <<>>

\* A click event reaches the button's onClick={handleClick}.  (The rendered
\* button also carries the disabled attribute in the states handleClick
\* rejects; the handler is modelled for every state.)
Click ==
    /\ mounted /\ pendingEffects = {}
    /\ calls' = handleClick("event")
    /\ ev' = [op |-> "click",
              defaultPrevented |-> disabled \/ loading \/ isShowingFeedback,
              \* the previous operation was a click on the button too: no
              \* clock tick lies between the two
              again |-> "again" \in DOMAIN ev]
    /\ UNCHANGED <<buttonVars, containerVars, styleVars>>

\* The parent re-renders the button with another loading prop; loading is in
\* no effect's dependency list.
SetLoading(l) ==
    /\ mounted /\ pendingEffects = {}
    /\ l # loading
    /\ loading' = l
    /\ ev' = [op |-> "props"]
    /\ calls' = <<>>
    /\ UNCHANGED <<variant, children, disabled, showSuccess, showError,
                   successMessage, errorMessage, feedbackDuration, onActionComplete,
                   onClick, debounceMs, buttonState>>
    /\ UNCHANGED <<containerVars, styleVars>>

\* a button that is never loading and was given no onClick and no
\* debounceMs (index.d.ts: debounceMs=0)
NoClickProps == loading = FALSE /\ onClick = "none" /\ debounceMs = 0

ButtonNext ==
    \/ \E v \in Variants, c \in Contents, d \in BOOLEAN, ss \in BOOLEAN, se \in BOOLEAN :
          SetProps(v, c, d, ss, se)
    \/ FlushEffects
    \/ \E k \in DOMAIN timers : ExpireTimer(k)
    \/ Tick
    \/ Unmount

ClickNext ==
    \/ Click
    \/ \E l \in BOOLEAN : SetLoading(l)

(***************************************************************************)
(* ResponsiveButton: getPositionStyles                                     *)
(*                                                                         *)
(* A JavaScript value is a record: undefined, a number, a string or a      *)
(* boolean.                                                                *)
(***************************************************************************)
Undefined == [t |-> "undefined", n |-> 0, s |-> ""]
Num(n) == [t |-> "number", n |-> n, s |-> ""]
Str(s) == [t |-> "string", n |-> 0, s |-> s]
Bool(b) == [t |-> "boolean", n |-> IF b THEN 1 ELSE 0, s |-> ""]

\* JavaScript truthiness: undefined, false, 0 and '' are falsy
ToBoolean(v) ==
    CASE v.t = "undefined" -> FALSE
      [] v.t = "boolean" -> v.n = 1
      [] v.t = "number" -> v.n # 0
      [] v.t = "string" -> v.s # ""

\* a || b
OrElse(a, b) == IF ToBoolean(a) THEN a ELSE b

\* typeof v === 'number' ? `${v}px` : v
Px(v) == IF v.t = "number" THEN Str(ToString(v.n) \o "px") ELSE v

Sides == {"top", "right", "bottom", "left"}
MarginSides == {"marginTop", "marginRight", "marginBottom", "marginLeft"}
PositionFields ==
    {"position", "placement", "zIndex", "margin", "marginX", "marginY"}
        \cup Sides \cup MarginSides
StyleKeys ==
    {"position", "transform", "zIndex", "margin"} \cup Sides \cup MarginSides

Presets ==
    {"top-left", "top-center", "top-right", "center-left", "center",
     "center-right", "bottom-left", "bottom-center", "bottom-right"}

\* the values a caller supplies for each positioning prop
PositionValues(f) ==
    CASE f = "position" ->
           {Undefined, Str("static"), Str("relative"), Str("absolute"), Str("fixed")}
      [] f = "placement" ->
           {Undefined, Str("custom")} \cup {Str(pl) : pl \in Presets}
      [] f \in Sides -> {Undefined, Num(0), Num(10), Str("5%")}
      [] f = "zIndex" -> {Undefined, Num(5)}
      [] OTHER -> {Undefined, Num(0), Str("auto")}

\* position = 'static' in the parameter list
position(p) == IF p["position"] = Undefined THEN Str("static") ELSE p["position"]

\* const styles = {}
NoStyles == [k \in StyleKeys |-> Undefined]

\* (mutation of PresetStyles: every preset is laid out as top-left)
PresetStyles_AlwaysCorner(st, p) ==
    [st EXCEPT !["top"] = OrElse(p["top"], Num(0)),
               !["left"] = OrElse(p["left"], Num(0))]

\* switch (placement) { ... }
PresetStyles(st, p) ==
    CASE p["placement"] = Str("top-left") ->
           [st EXCEPT !["top"] = OrElse(p["top"], Num(0)),
                      !["left"] = OrElse(p["left"], Num(0))]
      [] p["placement"] = Str("top-center") ->
           [st EXCEPT !["top"] = OrElse(p["top"], Num(0)),
                      !["left"] = OrElse(p["left"], Str("50%")),
                      !["transform"] = Str("translateX(-50%)")]
      [] p["placement"] = Str("top-right") ->
           [st EXCEPT !["top"] = OrElse(p["top"], Num(0)),
                      !["right"] = OrElse(p["right"], Num(0))]
      [] p["placement"] = Str("center-left") ->
           [st EXCEPT !["top"] = OrElse(p["top"], Str("50%")),
                      !["left"] = OrElse(p["left"], Num(0)),
                      !["transform"] = Str("translateY(-50%)")]
      [] p["placement"] = Str("center") ->
           [st EXCEPT !["top"] = OrElse(p["top"], Str("50%")),
                      !["left"] = OrElse(p["left"], Str("50%")),
                      !["transform"] = Str("translate(-50%, -50%)")]
      [] p["placement"] = Str("center-right") ->
           [st EXCEPT !["top"] = OrElse(p["top"], Str("50%")),
                      !["right"] = OrElse(p["right"], Num(0)),
                      !["transform"] = Str("translateY(-50%)")]
      [] p["placement"] = Str("bottom-left") ->
           [st EXCEPT !["bottom"] = OrElse(p["bottom"], Num(0)),
                      !["left"] = OrElse(p["left"], Num(0))]
      [] p["placement"] = Str("bottom-center") ->
           [st EXCEPT !["bottom"] = OrElse(p["bottom"], Num(0)),
                      !["left"] = OrElse(p["left"], Str("50%")),
                      !["transform"] = Str("translateX(-50%)")]
      [] p["placement"] = Str("bottom-right") ->
           [st EXCEPT !["bottom"] = OrElse(p["bottom"], Num(0)),
                      !["right"] = OrElse(p["right"], Num(0))]
      [] OTHER -> st

\* the else branch: "Handle custom positioning"
CustomStyles(st, p) ==
    [k \in StyleKeys |->
        IF k \in Sides /\ p[k] # Undefined THEN Px(p[k]) ELSE st[k]]

\* (mutation of MarginStyles: a per-side margin overrides the axis margin)
MarginStyles_SideOverAxis(st, p) ==
    IF p["margin"] # Undefined
    THEN [st EXCEPT !["margin"] = Px(p["margin"])]
    ELSE LET pick(side, axis) ==
                 IF p[side] # Undefined THEN Px(p[side])
                 ELSE IF p[axis] # Undefined THEN Px(p[axis]) ELSE st[side]
         IN [st EXCEPT !["marginTop"] = pick("marginTop", "marginY"),
                       !["marginBottom"] = pick("marginBottom", "marginY"),
                       !["marginLeft"] = pick("marginLeft", "marginX"),
                       !["marginRight"] = pick("marginRight", "marginX")]

\* "Handle margins"
MarginStyles(st, p) ==
    IF p["margin"] # Undefined
    THEN [st EXCEPT !["margin"] = Px(p["margin"])]
    ELSE LET sides == [k \in StyleKeys |->
                         IF k \in MarginSides /\ p[k] # Undefined
                         THEN Px(p[k]) ELSE st[k]]
             withX == IF p["marginX"] # Undefined
                      THEN [sides EXCEPT !["marginLeft"] = Px(p["marginX"]),
                                         !["marginRight"] = Px(p["marginX"])]
                      ELSE sides
             withY == IF p["marginY"] # Undefined
                      THEN [withX EXCEPT !["marginTop"] = Px(p["marginY"]),
                                         !["marginBottom"] = Px(p["marginY"])]
                      ELSE withX
         IN withY

\* the preset branch is taken
UsesPreset(p) ==
    /\ position(p) \in {Str("absolute"), Str("fixed")}
    /\ ToBoolean(p["placement"])
    /\ p["placement"] # Str("custom")

\* (mutation of getPositionStyles: the explicit offsets are also copied
\* after a preset was applied)
getPositionStyles_OffsetsAfterPreset(p) ==
    LET positioned == IF position(p) # Str("static")
                      THEN [NoStyles EXCEPT !["position"] = position(p)]
                      ELSE NoStyles
        placed == IF UsesPreset(p)
                  THEN CustomStyles(PresetStyles(positioned, p), p)
                  ELSE CustomStyles(positioned, p)
        stacked == IF p["zIndex"] # Undefined
                   THEN [placed EXCEPT !["zIndex"] = p["zIndex"]]
                   ELSE placed
    IN MarginStyles(stacked, p)

\* const getPositionStyles = () => { ... }
getPositionStyles(p) ==
    LET positioned == IF position(p) # Str("static")
                      THEN [NoStyles EXCEPT !["position"] = position(p)]
                      ELSE NoStyles
        placed == IF UsesPreset(p)
                  THEN PresetStyles(positioned, p)
                  ELSE CustomStyles(positioned, p)
        stacked == IF p["zIndex"] # Undefined
                   THEN [placed EXCEPT !["zIndex"] = p["zIndex"]]
                   ELSE placed
    IN MarginStyles(stacked, p)

SuppliedFields(p) == {f \in DOMAIN p : p[f] # Undefined}

\* The button is rendered with one positioning prop changed; the render
\* recomputes the style object.
PositionRender(f, v) ==
    /\ v # posProps[f]
    /\ Cardinality(SuppliedFields([posProps EXCEPT ![f] = v])) <= MaxSupplied
    /\ posProps' = [posProps EXCEPT ![f] = v]
    /\ posStyles' = getPositionStyles(posProps')
    /\ UNCHANGED <<classProps, classNames, darkVars>>
    /\ UNCHANGED <<buttonVars, containerVars, ev, calls>>

PlacementNext ==
    \E f \in PositionFields : \E v \in PositionValues(f) : PositionRender(f, v)

\* a button rendered with no positioning prop
PlacementInit ==
    /\ posProps = [f \in PositionFields |-> Undefined]
    /\ posStyles = getPositionStyles(posProps)

(***************************************************************************)
(* ResponsiveContainer: containerClasses (src/unnamed/part_000)            *)
(*                                                                         *)
(* A class token keeps, next to its text, the prop whose array entry       *)
(* produced it and the literal category part of that entry's template.     *)
(***************************************************************************)
ClassFields ==
    {"className", "maxWidth", "width", "align", "padding", "margin",
     "paddingX", "paddingY", "marginX", "marginY", "layout", "gap", "radius",
     "textAlign", "alignItems", "justifyContent", "flexDirection", "flexWrap",
     "darkBackground", "modal", "modalSize", "modalPosition",
     "shadow", "background", "border", "borderColor", "borderStyle",
     "height", "minHeight", "maxHeight", "overflow", "overflowX", "overflowY",
     "position", "zIndex", "opacity", "transition",
     "hoverScale", "hoverShadow", "hoverBackground"}

\* the props that have a default in the parameter list, with that default
Defaults ==
    [className |-> Str(""), maxWidth |-> Str("full"), align |-> Str("center"),
     padding |-> Bool(TRUE), margin |-> Bool(TRUE), layout |-> Str("stack"),
     gap |-> Str("4"), radius |-> Str("none"), flexDirection |-> Str("column"),
     flexWrap |-> Str("nowrap"), darkBackground |-> Bool(FALSE),
     modal |-> Bool(FALSE), modalSize |-> Str("md"),
     modalPosition |-> Str("center"), borderStyle |-> Str("solid")]

\* the values a caller supplies for each styling prop, from the documented
\* enumerations
ClassValues(f) ==
    CASE f = "className" -> {Undefined, Str("card")}
      [] f = "maxWidth" -> {Undefined, Str("tablet")}
      [] f = "width" -> {Undefined, Str("50")}
      [] f = "align" -> {Undefined, Str("start")}
      [] f \in {"padding", "margin"} -> {Undefined, Bool(FALSE)}
      [] f \in {"paddingX", "marginX"} -> {Undefined, Str("4")}
      [] f \in {"paddingY", "marginY"} -> {Undefined, Str("2")}
      [] f = "layout" -> {Undefined, Str("grid"), Str("flex")}
      [] f = "gap" -> {Undefined, Str("6")}
      [] f = "radius" -> {Undefined, Str("md")}
      [] f = "textAlign" -> {Undefined, Str("center")}
      [] f = "alignItems" -> {Undefined, Str("center")}
      [] f = "justifyContent" -> {Undefined, Str("between")}
      [] f = "flexDirection" -> {Undefined, Str("row")}
      [] f = "flexWrap" -> {Undefined, Str("wrap")}
      [] f \in {"darkBackground", "modal"} -> {Undefined, Bool(TRUE)}
      [] f = "modalSize" -> {Undefined, Str("lg")}
      [] f = "modalPosition" -> {Undefined, Str("top")}
      [] f = "shadow" -> {Undefined, Str("lg")}
      [] f = "background" -> {Undefined, Str("white")}
      [] f = "border" -> {Undefined, Str("2")}
      [] f = "borderColor" -> {Undefined, Str("primary")}
      [] f = "borderStyle" -> {Undefined, Str("dashed")}
      [] f = "height" -> {Undefined, Str("full")}
      [] f = "minHeight" -> {Undefined, Str("50")}
      [] f = "maxHeight" -> {Undefined, Str("screen")}
      [] f = "overflow" -> {Undefined, Str("hidden")}
      [] f = "overflowX" -> {Undefined, Str("auto")}
      [] f = "overflowY" -> {Undefined, Str("scroll")}
      [] f = "position" -> {Undefined, Str("relative")}
      [] f = "zIndex" -> {Undefined, Str("10")}
      [] f = "opacity" -> {Undefined, Str("50")}
      [] f = "transition" -> {Undefined, Str("hover")}
      [] f = "hoverScale" -> {Undefined, Str("1.05")}
      [] f = "hoverShadow" -> {Undefined, Str("md")}
      [] f = "hoverBackground" -> {Undefined, Str("primary")}

\* (mutation of WithDefaults: shadow defaults to 'none')
WithDefaults_ShadowNone(p) ==
    [f \in ClassFields |->
        IF p[f] # Undefined THEN p[f]
        ELSE IF f = "shadow" THEN Str("none")
        ELSE IF f \in DOMAIN Defaults THEN Defaults[f] ELSE Undefined]

\* parameter destructuring: a default replaces an undefined prop
WithDefaults(p) ==
    [f \in ClassFields |->
        IF p[f] = Undefined /\ f \in DOMAIN Defaults THEN Defaults[f] ELSE p[f]]

\* an array entry that filter(Boolean) drops
Dropped == [prop |-> "", category |-> "", text |-> ""]

\* `responsive-container--<category>-${value}` written for prop
Class(prop, category, value) ==
    [prop |-> prop, category |-> category,
     text |-> "responsive-container--" \o category \o "-" \o value]

\* 'responsive-container--<category>' written for prop
Flag(prop, category) ==
    [prop |-> prop, category |-> category,
     text |-> "responsive-container--" \o category]

\* `responsive-container--${value}` written for prop
Bare(prop, value) ==
    [prop |-> prop, category |-> "", text |-> "responsive-container--" \o value]

\* cond && token
When(cond, token) == IF cond THEN token ELSE Dropped

\* (mutation of SizingClasses: a modal keeps its custom width class)
SizingClasses_WidthInModal(p) ==
    << [prop |-> "", category |-> "", text |-> "responsive-container"],
       When(~ToBoolean(p.modal), Bare("maxWidth", p.maxWidth.s)),
       When(ToBoolean(p.width), Class("width", "width", p.width.s)),
       When(~ToBoolean(p.modal), Class("align", "align", p.align.s)) >>

\* 'responsive-container', max width, custom width, alignment
SizingClasses(p) ==
    << [prop |-> "", category |-> "", text |-> "responsive-container"],
       When(~ToBoolean(p.modal), Bare("maxWidth", p.maxWidth.s)),
       When(~ToBoolean(p.modal) /\ ToBoolean(p.width),
            Class("width", "width", p.width.s)),
       When(~ToBoolean(p.modal), Class("align", "align", p.align.s)) >>

\* (mutation of SpacingClasses: the default padding is dropped only when
\* both axis paddings are supplied)
SpacingClasses_PaddingPerAxis(p) ==
    << When(ToBoolean(p.paddingX), Class("paddingX", "padding-x", p.paddingX.s)),
       When(ToBoolean(p.paddingY), Class("paddingY", "padding-y", p.paddingY.s)),
       When(ToBoolean(p.marginX), Class("marginX", "margin-x", p.marginX.s)),
       When(ToBoolean(p.marginY), Class("marginY", "margin-y", p.marginY.s)),
       When(~(ToBoolean(p.paddingX) /\ ToBoolean(p.paddingY)) /\ ToBoolean(p.padding),
            Flag("padding", "padding")),
       When(~ToBoolean(p.marginX) /\ ~ToBoolean(p.marginY) /\ ToBoolean(p.margin)
               /\ ~ToBoolean(p.modal),
            Flag("margin", "margin")) >>

\* (mutation of SpacingClasses: the default margin ignores the axis margins)
SpacingClasses_MarginKept(p) ==
    << When(ToBoolean(p.paddingX), Class("paddingX", "padding-x", p.paddingX.s)),
       When(ToBoolean(p.paddingY), Class("paddingY", "padding-y", p.paddingY.s)),
       When(ToBoolean(p.marginX), Class("marginX", "margin-x", p.marginX.s)),
       When(ToBoolean(p.marginY), Class("marginY", "margin-y", p.marginY.s)),
       When(~ToBoolean(p.paddingX) /\ ~ToBoolean(p.paddingY) /\ ToBoolean(p.padding),
            Flag("padding", "padding")),
       When(ToBoolean(p.margin) /\ ~ToBoolean(p.modal),
            Flag("margin", "margin")) >>

\* // Spacing
SpacingClasses(p) ==
    << When(ToBoolean(p.paddingX), Class("paddingX", "padding-x", p.paddingX.s)),
       When(ToBoolean(p.paddingY), Class("paddingY", "padding-y", p.paddingY.s)),
       When(ToBoolean(p.marginX), Class("marginX", "margin-x", p.marginX.s)),
       When(ToBoolean(p.marginY), Class("marginY", "margin-y", p.marginY.s)),
       When(~ToBoolean(p.paddingX) /\ ~ToBoolean(p.paddingY) /\ ToBoolean(p.padding),
            Flag("padding", "padding")),
       When(~ToBoolean(p.marginX) /\ ~ToBoolean(p.marginY) /\ ToBoolean(p.margin)
               /\ ~ToBoolean(p.modal),
            Flag("margin", "margin")) >>

\* (mutation of LayoutClasses: the flex sub-properties are emitted for
\* every layout)
LayoutClasses_FlexPropsAlways(p) ==
    << Bare("layout", p.layout.s),
       When(p.layout = Str("flex") \/ p.layout = Str("grid"),
            Class("gap", "gap", p.gap.s)),
       When(ToBoolean(p.textAlign), Class("textAlign", "text", p.textAlign.s)),
       When(ToBoolean(p.alignItems),
            Class("alignItems", "align-items", p.alignItems.s)),
       When(ToBoolean(p.justifyContent),
            Class("justifyContent", "justify", p.justifyContent.s)),
       When(ToBoolean(p.flexDirection),
            Class("flexDirection", "flex", p.flexDirection.s)),
       When(ToBoolean(p.flexWrap),
            Class("flexWrap", "flex-wrap", p.flexWrap.s)) >>

\* (mutation of LayoutClasses: the gap class is emitted for every layout)
LayoutClasses_GapAlways(p) ==
    << Bare("layout", p.layout.s),
       Class("gap", "gap", p.gap.s),
       When(ToBoolean(p.textAlign), Class("textAlign", "text", p.textAlign.s)),
       When(p.layout = Str("flex") /\ ToBoolean(p.alignItems),
            Class("alignItems", "align-items", p.alignItems.s)),
       When(p.layout = Str("flex") /\ ToBoolean(p.justifyContent),
            Class("justifyContent", "justify", p.justifyContent.s)),
       When(p.layout = Str("flex") /\ ToBoolean(p.flexDirection),
            Class("flexDirection", "flex", p.flexDirection.s)),
       When(p.layout = Str("flex") /\ ToBoolean(p.flexWrap),
            Class("flexWrap", "flex-wrap", p.flexWrap.s)) >>

\* // Layout
LayoutClasses(p) ==
    << Bare("layout", p.layout.s),
       When(p.layout = Str("flex") \/ p.layout = Str("grid"),
            Class("gap", "gap", p.gap.s)),
       When(ToBoolean(p.textAlign), Class("textAlign", "text", p.textAlign.s)),
       When(p.layout = Str("flex") /\ ToBoolean(p.alignItems),
            Class("alignItems", "align-items", p.alignItems.s)),
       When(p.layout = Str("flex") /\ ToBoolean(p.justifyContent),
            Class("justifyContent", "justify", p.justifyContent.s)),
       When(p.layout = Str("flex") /\ ToBoolean(p.flexDirection),
            Class("flexDirection", "flex", p.flexDirection.s)),
       When(p.layout = Str("flex") /\ ToBoolean(p.flexWrap),
            Class("flexWrap", "flex-wrap", p.flexWrap.s)) >>

\* // Appearance
AppearanceClasses(p) ==
    << When(ToBoolean(p.radius), Class("radius", "radius", p.radius.s)),
       When(ToBoolean(p.shadow), Class("shadow", "shadow", p.shadow.s)),
       When(ToBoolean(p.background), Class("background", "bg", p.background.s)),
       When(ToBoolean(p.darkBackground), Flag("darkBackground", "dark-bg")) >>

\* // Border
BorderClasses(p) ==
    << When(ToBoolean(p.border), Class("border", "border", p.border.s)),
       When(ToBoolean(p.borderColor), Class("borderColor", "border", p.borderColor.s)),
       When(p.borderStyle # Str("solid"),
            Class("borderStyle", "border", p.borderStyle.s)) >>

\* // Dimensions
DimensionClasses(p) ==
    << When(ToBoolean(p.height), Class("height", "height", p.height.s)),
       When(ToBoolean(p.minHeight), Class("minHeight", "min-height", p.minHeight.s)),
       When(ToBoolean(p.maxHeight), Class("maxHeight", "max-height", p.maxHeight.s)) >>

\* // Overflow
OverflowClasses(p) ==
    << When(ToBoolean(p.overflow), Class("overflow", "overflow", p.overflow.s)),
       When(ToBoolean(p.overflowX), Class("overflowX", "overflow-x", p.overflowX.s)),
       When(ToBoolean(p.overflowY), Class("overflowY", "overflow-y", p.overflowY.s)) >>

\* // Position, // Opacity
PositionClasses(p) ==
    << When(ToBoolean(p.position), Class("position", "position", p.position.s)),
       When(ToBoolean(p.zIndex), Class("zIndex", "z", p.zIndex.s)),
       When(ToBoolean(p.opacity), Class("opacity", "opacity", p.opacity.s)) >>

\* // Transitions and Hover Effects
HoverClasses(p) ==
    << When(ToBoolean(p.transition), Class("transition", "transition", p.transition.s)),
       When(ToBoolean(p.hoverScale), Class("hoverScale", "hover-scale", p.hoverScale.s)),
       When(ToBoolean(p.hoverShadow), Class("hoverShadow", "hover-shadow", p.hoverShadow.s)),
       When(ToBoolean(p.hoverBackground),
            Class("hoverBackground", "hover-bg", p.hoverBackground.s)) >>

\* // Modal specific classes, then className
ModalClasses(p) ==
    << When(ToBoolean(p.modal), Flag("modal", "modal")),
       When(ToBoolean(p.modal), Class("modalSize", "modal", p.modalSize.s)),
       When(ToBoolean(p.modal), Class("modalPosition", "modal", p.modalPosition.s)),
       [prop |-> "className", category |-> "", text |-> p.className.s] >>

\* .filter(Boolean): '' and false entries are dropped
FilterBoolean(entries) == SelectSeq(entries, LAMBDA e : e.text # "")

\* (mutation of containerClasses: the layout entries come before the
\* spacing entries)
containerClasses_LayoutFirst(given) ==
    LET p == WithDefaults(given)
    IN FilterBoolean(SizingClasses(p) \o LayoutClasses(p) \o SpacingClasses(p)
                     \o AppearanceClasses(p) \o BorderClasses(p)
                     \o DimensionClasses(p) \o OverflowClasses(p)
                     \o PositionClasses(p) \o HoverClasses(p) \o ModalClasses(p))

\* const containerClasses = [ ... ].filter(Boolean).join(' '): the class
\* list before it is joined with spaces
containerClasses(given) ==
    LET p == WithDefaults(given)
    IN FilterBoolean(SizingClasses(p) \o SpacingClasses(p) \o LayoutClasses(p)
                     \o AppearanceClasses(p) \o BorderClasses(p)
                     \o DimensionClasses(p) \o OverflowClasses(p)
                     \o PositionClasses(p) \o HoverClasses(p) \o ModalClasses(p))

\* The container is rendered with one styling prop changed; the render
\* recomputes the class list.
ClassRender(f, v) ==
    /\ v # classProps[f]
    /\ Cardinality(SuppliedFields([classProps EXCEPT ![f] = v])) <= MaxClassProps
    /\ classProps' = [classProps EXCEPT ![f] = v]
    /\ classNames' = containerClasses(classProps')
    /\ UNCHANGED <<posProps, posStyles, darkVars>>
    /\ UNCHANGED <<buttonVars, containerVars, ev, calls>>

ClassesNext ==
    \E f \in ClassFields : \E v \in ClassValues(f) : ClassRender(f, v)

\* a container rendered with no styling prop
ClassesInit ==
    /\ classProps = [f \in ClassFields |-> Undefined]
    /\ classNames = containerClasses(classProps)

(***************************************************************************)
(* ResponsiveContainer (modal)                                             *)
(***************************************************************************)
Instances == {"m1", "m2"}
CloseCallbacks == {"none", "cbA"}
Keys == {"Escape", "Enter"}
\* the element a click lands on: the backdrop itself or something inside it
ClickTargets == {"backdrop", "content"}
\* inline values document.body.style.overflow can hold ("" is no inline value)
OverflowValues == {"", "scroll", "hidden", "unset"}

ContainerProps ==
    [modal : BOOLEAN, modalOpen : BOOLEAN,
     modalCloseOnBackdrop : BOOLEAN, modalCloseOnEscape : BOOLEAN,
     onModalClose : CloseCallbacks]

\* the destructuring defaults of the component
DefaultProps ==
    [modal |-> FALSE, modalOpen |-> FALSE,
     modalCloseOnBackdrop |-> TRUE, modalCloseOnEscape |-> TRUE,
     onModalClose |-> "none"]

Supplied(cb) == cb # "none"

\* (mutation of EscapeCleanup: the effect returns no cleanup)
EscapeCleanup_None(ls, i) == ls

\* return () => document.removeEventListener('keydown', handleEscape)
EscapeCleanup(ls, i) == SelectSeq(ls, LAMBDA l : l.owner # i)

\* body of the escape-key effect: document.addEventListener('keydown', handleEscape)
EscapeEffect(ls, i, p) ==
    IF p.modal /\ p.modalOpen /\ p.modalCloseOnEscape /\ Supplied(p.onModalClose)
    THEN Append(ls, [owner |-> i, onModalClose |-> p.onModalClose])
    ELSE ls

\* (mutation of handleEscape: the key is not tested)
handleEscape_AnyKey(l, key) ==
    <<[fn |-> "onModalClose", inst |-> l.owner, cb |-> l.onModalClose]>>

\* const handleEscape = (e) => { if (e.key === 'Escape') onModalClose() }
handleEscape(l, key) ==
    IF key = "Escape"
    THEN <<[fn |-> "onModalClose", inst |-> l.owner, cb |-> l.onModalClose]>>
    ELSE <<>>

\* return () => { document.body.style.overflow = 'unset' }
ScrollLockCleanup(ov) == "unset"

\* body of the scroll-lock effect
ScrollLockEffect(ov, p) == IF p.modal /\ p.modalOpen THEN "hidden" ELSE ov

\* whether the scroll-lock effect returns a cleanup
ScrollLockTaken(p) == p.modal /\ p.modalOpen

\* the render branch: what the component returns
Render(p) ==
    IF p.modal
    THEN IF ~p.modalOpen THEN "null" ELSE "backdrop"
    ELSE "container"

\* (mutation of handleBackdropClick: e.target is not compared with
\* e.currentTarget)
handleBackdropClick_AnyTarget(i, p, target) ==
    IF p.modalCloseOnBackdrop /\ Supplied(p.onModalClose)
    THEN <<[fn |-> "onModalClose", inst |-> i, cb |-> p.onModalClose]>>
    ELSE <<>>

\* const handleBackdropClick = (e) => { ... } with e.currentTarget the backdrop
handleBackdropClick(i, p, target) ==
    IF p.modalCloseOnBackdrop /\ Supplied(p.onModalClose) /\ target = "backdrop"
    THEN <<[fn |-> "onModalClose", inst |-> i, cb |-> p.onModalClose]>>
    ELSE <<>>

IsOpen(i) == container[i].mounted /\ container[i].props.modal /\ container[i].props.modalOpen

HasListener(i) == \E k \in DOMAIN keydownListeners : keydownListeners[k].owner = i

\* (mutation of ContainerRender: onModalClose is missing from the
\* dependency list of the escape-key effect)
ContainerRender_CallbackNotADependency(i, p) ==
    /\ LET c == container[i]
           first == ~c.mounted
           escDeps(q) == <<q.modal, q.modalOpen, q.modalCloseOnEscape>>
           lockDeps(q) == <<q.modal, q.modalOpen>>
           runEsc == first \/ escDeps(p) # escDeps(c.props)
           runLock == first \/ lockDeps(p) # lockDeps(c.props)
           cleaned == IF runLock /\ scrollLock[i].held
                      THEN ScrollLockCleanup(bodyOverflow) ELSE bodyOverflow
       IN /\ ~first => p # c.props
          /\ container' = [container EXCEPT ![i] = [mounted |-> TRUE, props |-> p]]
          /\ dom' = [dom EXCEPT ![i] = Render(p)]
          /\ keydownListeners' =
                IF runEsc
                THEN EscapeEffect(EscapeCleanup(keydownListeners, i), i, p)
                ELSE keydownListeners
          /\ bodyOverflow' = IF runLock THEN ScrollLockEffect(cleaned, p) ELSE bodyOverflow
          /\ scrollLock' =
                IF runLock
                THEN [scrollLock EXCEPT ![i] =
                        [held |-> ScrollLockTaken(p),
                         prior |-> IF ScrollLockTaken(p) THEN cleaned ELSE ""]]
                ELSE scrollLock
          /\ ev' = [op |-> "render", inst |-> i,
                    left |-> IsOpen(i) /\ ~(p.modal /\ p.modalOpen),
                    unhooked |-> HasListener(i) /\ ~(p.modal /\ p.modalOpen)]
    /\ calls' = <<>>
    /\ UNCHANGED <<buttonVars, styleVars>>

\* A container is rendered with props p: its first render (mount) or a
\* re-render by its parent.  React then runs the cleanups of the effects
\* whose dependencies changed and after them the effect bodies.
ContainerRender(i, p) ==
    /\ LET c == container[i]
           first == ~c.mounted
           escDeps(q) == <<q.modal, q.modalOpen, q.modalCloseOnEscape, q.onModalClose>>
           lockDeps(q) == <<q.modal, q.modalOpen>>
           runEsc == first \/ escDeps(p) # escDeps(c.props)
           runLock == first \/ lockDeps(p) # lockDeps(c.props)
           cleaned == IF runLock /\ scrollLock[i].held
                      THEN ScrollLockCleanup(bodyOverflow) ELSE bodyOverflow
       IN /\ ~first => p # c.props
          /\ container' = [container EXCEPT ![i] = [mounted |-> TRUE, props |-> p]]
          /\ dom' = [dom EXCEPT ![i] = Render(p)]
          /\ keydownListeners' =
                IF runEsc
                THEN EscapeEffect(EscapeCleanup(keydownListeners, i), i, p)
                ELSE keydownListeners
          /\ bodyOverflow' = IF runLock THEN ScrollLockEffect(cleaned, p) ELSE bodyOverflow
          /\ scrollLock' =
                IF runLock
                THEN [scrollLock EXCEPT ![i] =
                        [held |-> ScrollLockTaken(p),
                         prior |-> IF ScrollLockTaken(p) THEN cleaned ELSE ""]]
                ELSE scrollLock
          /\ ev' = [op |-> "render", inst |-> i,
                    left |-> IsOpen(i) /\ ~(p.modal /\ p.modalOpen),
                    unhooked |-> HasListener(i) /\ ~(p.modal /\ p.modalOpen)]
    /\ calls' = <<>>
    /\ UNCHANGED <<buttonVars, styleVars>>

\* A container is removed: React runs the cleanup of every effect that has one.
ContainerUnmount(i) ==
    /\ container[i].mounted
    /\ container' = [container EXCEPT ![i] = [mounted |-> FALSE, props |-> DefaultProps]]
    /\ dom' = [dom EXCEPT ![i] = "null"]
    /\ keydownListeners' = EscapeCleanup(keydownListeners, i)
    /\ bodyOverflow' = IF scrollLock[i].held
                       THEN ScrollLockCleanup(bodyOverflow) ELSE bodyOverflow
    /\ scrollLock' = [scrollLock EXCEPT ![i] = [held |-> FALSE, prior |-> ""]]
    /\ ev' = [op |-> "unmount", inst |-> i, left |-> IsOpen(i),
              unhooked |-> HasListener(i)]
    /\ calls' = <<>>
    /\ UNCHANGED <<buttonVars, styleVars>>

RECURSIVE Dispatch(_, _)
\* the document delivers a keydown event to its listeners in registration order
Dispatch(ls, key) ==
    IF ls = <<>> THEN <<>> ELSE handleEscape(Head(ls), key) \o Dispatch(Tail(ls), key)

KeyDown(key) ==
    /\ calls' = Dispatch(keydownListeners, key)
    /\ ev' = [op |-> "keydown", key |-> key]
    /\ UNCHANGED <<buttonVars, containerVars, styleVars>>

\* (mutation of BackdropClick: a dismissing click also closes the modal itself)
BackdropClick_ClosesItself(i, target) ==
    /\ dom[i] = "backdrop"
    /\ calls' = handleBackdropClick(i, container[i].props, target)
    /\ ev' = [op |-> "click", inst |-> i, target |-> target]
    /\ IF calls' # <<>>
       THEN /\ container' = [container EXCEPT ![i].props.modalOpen = FALSE]
            /\ dom' = [dom EXCEPT ![i] = "null"]
       ELSE UNCHANGED <<container, dom>>
    /\ UNCHANGED <<keydownListeners, scrollLock, bodyOverflow>>
    /\ UNCHANGED <<buttonVars, styleVars>>

\* A click inside the rendered modal reaches the backdrop's onClick, either
\* on the backdrop itself or bubbling up from its content.
BackdropClick(i, target) ==
    /\ dom[i] = "backdrop"
    /\ calls' = handleBackdropClick(i, container[i].props, target)
    /\ ev' = [op |-> "click", inst |-> i, target |-> target]
    /\ UNCHANGED <<buttonVars, containerVars, styleVars>>

ContainerInit ==
    /\ container = [i \in Instances |-> [mounted |-> FALSE, props |-> DefaultProps]]
    /\ dom = [i \in Instances |-> "null"]
    /\ keydownListeners = <<>>
    /\ scrollLock = [i \in Instances |-> [held |-> FALSE, prior |-> ""]]
    /\ bodyOverflow \in OverflowValues

\* the props of a modal whose parent passes one of two close callbacks, or
\* none, and leaves modalCloseOnBackdrop at its default
EscapeProps ==
    [modal : BOOLEAN, modalOpen : BOOLEAN,
     modalCloseOnBackdrop : {TRUE}, modalCloseOnEscape : BOOLEAN,
     onModalClose : {"none", "cbA", "cbB"}]

EscapeNext ==
    \/ \E i \in Instances, p \in EscapeProps : ContainerRender(i, p)
    \/ \E i \in Instances : ContainerUnmount(i)
    \/ \E key \in Keys : KeyDown(key)

ContainerNext ==
    \/ \E i \in Instances, p \in ContainerProps : ContainerRender(i, p)
    \/ \E i \in Instances : ContainerUnmount(i)
    \/ \E key \in Keys : KeyDown(key)
    \/ \E i \in Instances, target \in ClickTargets : BackdropClick(i, target)

(***************************************************************************)
(* useDarkMode (src/components/DarkmodeToggle.jsx)                         *)
(***************************************************************************)
\* classes the document root may carry; "theme" stands for any class the hook
\* never touches
RootClassNames == {"dark", "auto-dark", "theme"}

\* the two effects of the hook
DarkEffectNames == {"class", "media"}

\* a class effect that only ever adds
ApplyDarkClass_AddOnly(root, dark) ==
    IF dark THEN root \cup {"dark"} ELSE root \cup {"auto-dark"}

\* body of the effect on [isDarkMode]: classList.add / classList.remove
ApplyDarkClass(root, dark) ==
    IF dark
    THEN (root \cup {"dark"}) \ {"auto-dark"}
    ELSE (root \ {"dark"}) \cup {"auto-dark"}

\* the component calling the hook has rendered once: the state cell holds
\* matchMedia(...).matches, both effects are still to run
DarkModeInit ==
    /\ prefersDark \in BOOLEAN
    /\ isDarkMode = prefersDark
    /\ queuedDarkMode = isDarkMode
    /\ darkEffects = DarkEffectNames
    /\ darkMounted = TRUE
    /\ mediaListeners = {}
    /\ rootClasses \in SUBSET RootClassNames

\* no component calls the hook
DarkModeAbsent ==
    /\ prefersDark = FALSE /\ isDarkMode = FALSE /\ queuedDarkMode = FALSE
    /\ darkEffects = {} /\ darkMounted = FALSE
    /\ mediaListeners = {} /\ rootClasses = {}

\* React runs the effects left by the last render
DarkFlushEffects ==
    /\ darkMounted
    /\ darkEffects # {}
    /\ rootClasses' = IF "class" \in darkEffects
                      THEN ApplyDarkClass(rootClasses, isDarkMode)
                      ELSE rootClasses
    /\ mediaListeners' = IF "media" \in darkEffects
                         THEN mediaListeners \cup {"handleChange"}
                         ELSE mediaListeners
    /\ darkEffects' = {}
    /\ ev' = [op |-> "darkFlush", ran |-> darkEffects]
    /\ calls' = <<>>
    /\ UNCHANGED <<isDarkMode, queuedDarkMode, darkMounted, prefersDark>>
    /\ UNCHANGED <<buttonVars, containerVars, posProps, posStyles,
                   classProps, classNames>>

\* toggleDarkMode of the last render: setIsDarkMode(!isDarkMode) with the
\* value that render saw
toggleDarkMode ==
    /\ darkMounted
    /\ queuedDarkMode' = ~isDarkMode
    /\ ev' = [op |-> "toggle", again |-> "again" \in DOMAIN ev]
    /\ calls' = <<>>
    /\ UNCHANGED <<isDarkMode, darkEffects, darkMounted, prefersDark,
                   mediaListeners, rootClasses>>
    /\ UNCHANGED <<buttonVars, containerVars, posProps, posStyles,
                   classProps, classNames>>

\* the system colour scheme changes; handleChange, when registered, stores
\* e.matches
MediaChange ==
    /\ prefersDark' = ~prefersDark
    /\ queuedDarkMode' = IF "handleChange" \in mediaListeners
                         THEN prefersDark'
                         ELSE queuedDarkMode
    /\ ev' = [op |-> "change", heard |-> "handleChange" \in mediaListeners]
    /\ calls' = <<>>
    /\ UNCHANGED <<isDarkMode, darkEffects, darkMounted, mediaListeners,
                   rootClasses>>
    /\ UNCHANGED <<buttonVars, containerVars, posProps, posStyles,
                   classProps, classNames>>

\* React re-renders after a state update that changed the value (pending
\* effects are flushed before a new render); the effect on [isDarkMode] is
\* scheduled, the effect on [] is not
DarkRender ==
    /\ darkMounted
    /\ darkEffects = {}
    /\ queuedDarkMode # isDarkMode
    /\ isDarkMode' = queuedDarkMode
    /\ darkEffects' = {"class"}
    /\ ev' = [op |-> "darkRender"]
    /\ calls' = <<>>
    /\ UNCHANGED <<queuedDarkMode, darkMounted, prefersDark, mediaListeners,
                   rootClasses>>
    /\ UNCHANGED <<buttonVars, containerVars, posProps, posStyles,
                   classProps, classNames>>

\* the component unmounts: the media effect's cleanup removes handleChange,
\* the class effect has no cleanup
DarkUnmount ==
    /\ darkMounted
    /\ darkMounted' = FALSE
    /\ darkEffects' = {}
    /\ mediaListeners' = mediaListeners \ {"handleChange"}
    /\ ev' = [op |-> "darkUnmount"]
    /\ calls' = <<>>
    /\ UNCHANGED <<isDarkMode, queuedDarkMode, prefersDark, rootClasses>>
    /\ UNCHANGED <<buttonVars, containerVars, posProps, posStyles,
                   classProps, classNames>>

DarkModeNext ==
    \/ DarkFlushEffects
    \/ toggleDarkMode
    \/ MediaChange
    \/ DarkRender
    \/ DarkUnmount

(***************************************************************************)
(* Specifications                                                          *)
(***************************************************************************)
NoEvent == ev = [op |-> "init"] /\ calls = <<>>

\* no styling prop is supplied
PlacementAbsent == posProps = <<>> /\ posStyles = <<>>
ClassesAbsent == classProps = <<>> /\ classNames = <<>>
StylesAbsent == PlacementAbsent /\ ClassesAbsent /\ DarkModeAbsent

\* a page with no button on it
ButtonAbsent ==
    /\ variant = "primary" /\ children = "Save"
    /\ disabled = FALSE /\ showSuccess = FALSE /\ showError = FALSE
    /\ successMessage = "" /\ errorMessage = ""
    /\ feedbackDuration = 1 /\ onActionComplete = "none"
    /\ currentVariant = "primary" /\ currentContent = "Save"
    /\ isShowingFeedback = FALSE
    /\ mounted = FALSE /\ pendingEffects = {} /\ timers = <<>>
    /\ NoClickProps

\* a page with no container on it
ContainerAbsent == ContainerInit /\ bodyOverflow = ""

Init ==
    /\ ButtonInit /\ loading \in BOOLEAN /\ onClick \in Callbacks
    /\ debounceMs \in 0..MaxDebounce
    /\ ContainerInit /\ PlacementInit /\ ClassesInit /\ DarkModeInit /\ NoEvent
Next ==
    \/ ButtonNext \/ ClickNext \/ ContainerNext \/ PlacementNext \/ ClassesNext
    \/ DarkModeNext
Spec == Init /\ [][Next]_vars

\* one ResponsiveButton alone
InitButton ==
    ButtonInit /\ NoClickProps /\ ContainerAbsent /\ StylesAbsent /\ NoEvent
SpecButton == InitButton /\ [][ButtonNext]_vars

\* one ResponsiveButton that is clicked: no messages, no onActionComplete
InitClick ==
    /\ ButtonInit
    /\ successMessage = "" /\ errorMessage = "" /\ onActionComplete = "none"
    /\ feedbackDuration = 1
    /\ loading \in BOOLEAN /\ onClick \in Callbacks /\ debounceMs = 0
    /\ ContainerAbsent /\ StylesAbsent /\ NoEvent
SpecClick == InitClick /\ [][ButtonNext \/ ClickNext]_vars

\* one ResponsiveButton with feedback messages and no onActionComplete
InitFeedback ==
    /\ ButtonInit
    /\ successMessage # "" /\ errorMessage # "" /\ onActionComplete = "none"
    /\ NoClickProps /\ ContainerAbsent /\ StylesAbsent /\ NoEvent
SpecFeedback == InitFeedback /\ [][ButtonNext]_vars

\* one ResponsiveButton with an onClick and a debounceMs of 0..MaxDebounce
\* clock ticks, whose parent changes no prop but loading
InitDebounce ==
    /\ ButtonInit
    /\ successMessage = "" /\ errorMessage = "" /\ onActionComplete = "none"
    /\ feedbackDuration = MaxDuration
    /\ loading = FALSE /\ onClick = "cb" /\ debounceMs \in 0..MaxDebounce
    /\ ContainerAbsent /\ StylesAbsent /\ NoEvent
DebounceNext ==
    \/ FlushEffects
    \/ \E k \in DOMAIN timers : ExpireTimer(k)
    \/ Tick
    \/ ClickNext
SpecDebounce == InitDebounce /\ [][DebounceNext]_vars

\* the positioning styles of one ResponsiveButton alone
InitPlacement ==
    /\ ButtonAbsent /\ ContainerAbsent /\ PlacementInit /\ ClassesAbsent
    /\ DarkModeAbsent /\ NoEvent
SpecPlacement == InitPlacement /\ [][PlacementNext]_vars

\* the escape-key listeners of the modal containers of one document
InitEscape ==
    /\ ButtonAbsent /\ ContainerInit /\ bodyOverflow = ""
    /\ StylesAbsent /\ NoEvent
SpecEscape == InitEscape /\ [][EscapeNext]_vars

\* the class list of one ResponsiveContainer alone
InitClasses ==
    /\ ButtonAbsent /\ ContainerAbsent /\ PlacementAbsent /\ ClassesInit
    /\ DarkModeAbsent /\ NoEvent
SpecClasses == InitClasses /\ [][ClassesNext]_vars

\* the modal containers of one document alone
InitModal == ButtonAbsent /\ ContainerInit /\ StylesAbsent /\ NoEvent
SpecModal == InitModal /\ [][ContainerNext]_vars

\* one component calling useDarkMode
InitDarkMode ==
    /\ ButtonAbsent /\ ContainerAbsent /\ PlacementAbsent /\ ClassesAbsent
    /\ DarkModeInit /\ NoEvent
SpecDarkMode == InitDarkMode /\ [][DarkModeNext]_vars

(***************************************************************************)
(* Properties                                                              *)
(***************************************************************************)
FirstDue == CHOOSE k \in DOMAIN timers : Due(k)

CallsFor(i) == SelectSeq(calls, LAMBDA c : c.fn = "onModalClose" /\ c.inst = i)

CompletionCallsMade == SelectSeq(calls, LAMBDA c : c.fn = "onActionComplete")

\* C1: a mounted button has at most one feedback cycle in flight: at most one
\* revert timer is pending, whatever the showSuccess/showError flags did.
C1_AtMostOneCycle == mounted => Len(timers) <= 1

\* C2: an instance that is not Open (modalOpen false, modal false, or
\* unmounted) has no keydown listener on the document, and a keydown event
\* never calls the onModalClose of an instance that is not Open.
C2_NoListenerOutsideOpen ==
    /\ \A i \in Instances : ~IsOpen(i) => ~HasListener(i)
    /\ ev.op = "keydown" => \A k \in DOMAIN calls : IsOpen(calls[k].inst)

C2_Witness ==
    /\ ev.op \in {"render", "unmount"}
    /\ ev.left /\ ev.unhooked
    /\ \E i \in Instances : i # ev.inst /\ HasListener(i)

\* C3: when an instance leaves Open, document.body.style.overflow is again
\* the value it had immediately before that instance opened.
C3_OverflowRoundTrip ==
    [][\A i \in Instances :
          (IsOpen(i) /\ ~IsOpen(i)') => bodyOverflow' = scrollLock[i].prior]_vars

\* C4: while any modal instance is Open the document stays scroll-locked
\* (body overflow hidden).
C4_LockedWhileAnyOpen ==
    (\E i \in Instances : IsOpen(i)) => bodyOverflow = "hidden"

\* C5: when the button unmounts, or its variant prop changes while feedback
\* is showing, every pending revert timer is cancelled.
C5_TimerCancelled ==
    [][((mounted /\ ~mounted') \/ (isShowingFeedback /\ variant' # variant))
          => timers' = <<>>]_vars

C7_OneCompletionPerCycle ==
    /\ [](/\ (ev.op = "expire" /\ onActionComplete # "none") =>
                /\ calls = <<[fn |-> "onActionComplete", arg |-> ev.kind]>>
                /\ mounted => ~isShowingFeedback
          /\ ev.op # "expire" => CompletionCallsMade = <<>>)
    /\ [][Len(timers') < Len(timers) =>
                /\ ev'.op = "expire"
                /\ Len(timers') = Len(timers) - 1
                /\ ev'.kind = timers[FirstDue].kind]_vars

C7_Witness ==
    /\ ev.op = "expire" /\ ev.kind = "error"
    /\ calls = <<[fn |-> "onActionComplete", arg |-> "error"]>>

\* C8: a click in an open modal with modalCloseOnBackdrop and a supplied
\* onModalClose calls onModalClose exactly once when its target is the backdrop
\* and not at all when its target is inside the backdrop; with
\* modalCloseOnBackdrop false no click calls it.
C8_BackdropClick ==
    ev.op = "click" =>
        LET p == container[ev.inst].props
        IN /\ (p.modalCloseOnBackdrop /\ Supplied(p.onModalClose)
                  /\ ev.target = "backdrop") =>
                 calls = <<[fn |-> "onModalClose", inst |-> ev.inst,
                            cb |-> p.onModalClose]>>
           /\ ev.target # "backdrop" => calls = <<>>
           /\ ~p.modalCloseOnBackdrop => calls = <<>>

C8_Witness ==
    /\ ev.op = "click" /\ ev.target = "content" /\ calls = <<>>
    /\ container[ev.inst].props.modalCloseOnBackdrop
    /\ Supplied(container[ev.inst].props.onModalClose)

\* C9: a keydown event calls the onModalClose of an open modal (that supplied
\* one) exactly once when the key is Escape and modalCloseOnEscape is true,
\* and not at all for another key or with modalCloseOnEscape false.
C9_EscapeKey ==
    ev.op = "keydown" =>
        \A i \in Instances :
            (IsOpen(i) /\ Supplied(container[i].props.onModalClose)) =>
                CallsFor(i) =
                    IF ev.key = "Escape" /\ container[i].props.modalCloseOnEscape
                    THEN <<[fn |-> "onModalClose", inst |-> i,
                            cb |-> container[i].props.onModalClose]>>
                    ELSE <<>>

C9_Witness ==
    /\ ev.op = "keydown" /\ ev.key = "Escape" /\ Len(calls) = 2

C11_ClickSuppressed ==
    ev.op = "click" =>
        /\ (disabled \/ loading \/ isShowingFeedback) => calls = <<>>
        /\ (~disabled /\ ~loading /\ ~isShowingFeedback /\ onClick # "none") =>
              calls = <<[fn |-> "onClick", arg |-> "event"]>>

C11_Witness ==
    /\ ev.op = "click" /\ onClick # "none"
    /\ isShowingFeedback /\ ~disabled /\ ~loading /\ calls = <<>>

(***************************************************************************)
(* Placement presets as the documentation tabulates them: a preset names a *)
(* vertical and a horizontal anchor.                                       *)
(***************************************************************************)
Vertical(pl) ==
    CASE pl \in {"top-left", "top-center", "top-right"} -> "top"
      [] pl \in {"center-left", "center", "center-right"} -> "middle"
      [] pl \in {"bottom-left", "bottom-center", "bottom-right"} -> "bottom"
Horizontal(pl) ==
    CASE pl \in {"top-left", "center-left", "bottom-left"} -> "left"
      [] pl \in {"top-center", "center", "bottom-center"} -> "center"
      [] pl \in {"top-right", "center-right", "bottom-right"} -> "right"
PresetSides(pl) ==
    {IF Vertical(pl) = "bottom" THEN "bottom" ELSE "top",
     IF Horizontal(pl) = "right" THEN "right" ELSE "left"}
PresetValue(pl, side) ==
    IF \/ side = "top" /\ Vertical(pl) = "middle"
       \/ side = "left" /\ Horizontal(pl) = "center"
    THEN Str("50%") ELSE Num(0)
PresetTransform(pl) ==
    CASE Vertical(pl) = "middle" /\ Horizontal(pl) = "center" ->
           Str("translate(-50%, -50%)")
      [] Vertical(pl) = "middle" /\ Horizontal(pl) # "center" ->
           Str("translateY(-50%)")
      [] Vertical(pl) # "middle" /\ Horizontal(pl) = "center" ->
           Str("translateX(-50%)")
      [] OTHER -> Undefined

\* C12: under position absolute or fixed and a named preset, each side of
\* the preset for which the caller supplied an offset carries that offset (0
\* included), and the preset's other side and its transform are the preset's.
C12_ExplicitOffsetWins ==
    UsesPreset(posProps) =>
        LET pl == posProps["placement"].s
        IN /\ \A side \in PresetSides(pl) :
                 posStyles[side] = IF posProps[side] # Undefined
                                   THEN posProps[side]
                                   ELSE PresetValue(pl, side)
           /\ posStyles["transform"] = PresetTransform(pl)

\* C13: under position absolute or fixed and no offset supplied, a preset
\* sets exactly its own two sides, 50% on a centring axis and 0 otherwise,
\* with the translate of its centring axes as transform; center gives top
\* 50%, left 50%, translate(-50%, -50%) and neither right nor bottom.
C13_PresetTable ==
    (UsesPreset(posProps) /\ \A side \in Sides : posProps[side] = Undefined) =>
        LET pl == posProps["placement"].s
        IN /\ \A side \in Sides :
                 posStyles[side] = IF side \in PresetSides(pl)
                                   THEN PresetValue(pl, side)
                                   ELSE Undefined
           /\ posStyles["transform"] = PresetTransform(pl)
           /\ pl = "center" =>
                 /\ posStyles["top"] = Str("50%") /\ posStyles["left"] = Str("50%")
                 /\ posStyles["transform"] = Str("translate(-50%, -50%)")
                 /\ posStyles["right"] = Undefined
                 /\ posStyles["bottom"] = Undefined

C13_Witness ==
    /\ posProps["position"] = Str("absolute")
    /\ posProps["placement"] = Str("center")
    /\ \A side \in Sides : posProps[side] = Undefined
    /\ posStyles["top"] = Str("50%") /\ posStyles["left"] = Str("50%")
    /\ posStyles["transform"] = Str("translate(-50%, -50%)")

\* C14: under position static the style object has none of position, top,
\* right, bottom, left and transform, whatever offsets and placement are
\* supplied.
C14_StaticEmitsNothing ==
    position(posProps) = Str("static") =>
        \A k \in Sides \cup {"position", "transform"} : posStyles[k] = Undefined

AxisOf(k) == IF k \in {"marginLeft", "marginRight"} THEN "marginX" ELSE "marginY"

\* C15: a uniform margin alone decides the margins (no per-side key is
\* written); without it marginX decides left and right and marginY top and
\* bottom even where a per-side margin is supplied, and a per-side margin
\* is used only on a side whose axis margin is not supplied.
C15_MarginPrecedence ==
    IF posProps["margin"] # Undefined
    THEN /\ posStyles["margin"] = Px(posProps["margin"])
         /\ \A k \in MarginSides : posStyles[k] = Undefined
    ELSE /\ posStyles["margin"] = Undefined
         /\ \A k \in MarginSides :
               posStyles[k] =
                   IF posProps[AxisOf(k)] # Undefined THEN Px(posProps[AxisOf(k)])
                   ELSE IF posProps[k] # Undefined THEN Px(posProps[k])
                   ELSE Undefined

C15_Witness ==
    /\ posProps["margin"] = Undefined
    /\ posProps["marginX"] = Num(0) /\ posProps["marginLeft"] = Str("auto")
    /\ posProps["marginTop"] = Str("auto") /\ posProps["marginY"] = Undefined
    /\ posStyles["marginLeft"] = Str("0px") /\ posStyles["marginRight"] = Str("0px")
    /\ posStyles["marginTop"] = Str("auto")

\* the tokens that the entry of a prop contributed to the class list
TokensOf(f) == {i \in DOMAIN classNames : classNames[i].prop = f}
Emits(f) == TokensOf(f) # {}
Given(f) == ToBoolean(classProps[f])
\* padding and margin are true unless the caller passes false
DefaultOn(f) == classProps[f] # Bool(FALSE)
IsModal == ToBoolean(classProps["modal"])

\* C16 as stated: an axis value suppresses the default of its own axis only,
\* so with exactly one of paddingX/paddingY (marginX/marginY) supplied the
\* default padding (margin) is still emitted for the other axis.
C16_OtherAxisKeepsDefault ==
    /\ (DefaultOn("padding") /\ Given("paddingX") # Given("paddingY"))
           => Emits("padding")
    /\ (DefaultOn("margin") /\ ~IsModal /\ Given("marginX") # Given("marginY"))
           => Emits("margin")

\* C16 (amended): the default padding token is emitted exactly when padding
\* is on and neither paddingX nor paddingY is supplied, so one axis value
\* removes the default of both axes; the same holds for margin outside a
\* modal; an axis token is emitted exactly when its axis value is supplied;
\* padding tokens depend on padding props only and margin tokens on margin
\* props (and modal) only.
C16_AxisSuppressesDefault ==
    /\ Emits("padding") <=>
           (DefaultOn("padding") /\ ~Given("paddingX") /\ ~Given("paddingY"))
    /\ Emits("margin") <=>
           (DefaultOn("margin") /\ ~IsModal /\ ~Given("marginX") /\ ~Given("marginY"))
    /\ \A f \in {"paddingX", "paddingY", "marginX", "marginY"} :
           Emits(f) <=> Given(f)

C16_Witness ==
    /\ Given("paddingX") /\ ~Given("paddingY") /\ DefaultOn("padding")
    /\ ~Given("marginX") /\ ~Given("marginY") /\ DefaultOn("margin")
    /\ Emits("paddingX") /\ ~Emits("padding") /\ Emits("margin")

\* the class texts of the list
Texts == {classNames[i].text : i \in DOMAIN classNames}

\* C17: with padding on and paddingX or paddingY supplied, the class list
\* has no 'responsive-container--padding' and has the class of each
\* supplied axis; with marginX or marginY supplied it has no
\* 'responsive-container--margin'.
C17_GenericTokenOmitted ==
    /\ (DefaultOn("padding") /\ (Given("paddingX") \/ Given("paddingY"))) =>
          /\ "responsive-container--padding" \notin Texts
          /\ Given("paddingX") =>
                ("responsive-container--padding-x-" \o classProps["paddingX"].s)
                    \in Texts
          /\ Given("paddingY") =>
                ("responsive-container--padding-y-" \o classProps["paddingY"].s)
                    \in Texts
    /\ (Given("marginX") \/ Given("marginY")) =>
          "responsive-container--margin" \notin Texts

C17_Witness ==
    /\ classProps["paddingX"] = Str("4") /\ classProps["marginY"] = Str("2")
    /\ classProps["padding"] = Undefined
    /\ "responsive-container--padding-x-4" \in Texts
    /\ "responsive-container--margin-y-2" \in Texts
    /\ "responsive-container--padding" \notin Texts
    /\ "responsive-container--margin" \notin Texts

\* C18: no class text occurs twice in the list, and no two tokens have the
\* same 'responsive-container--<category>' part.
C18_OneTokenPerCategory ==
    \A i, j \in DOMAIN classNames :
        i # j =>
            /\ classNames[i].text # classNames[j].text
            /\ ~(classNames[i].category # ""
                   /\ classNames[i].category = classNames[j].category)

IndexOf(seq, x) == CHOOSE i \in DOMAIN seq : seq[i] = x

\* the category of the documented canonical order that a prop's token
\* belongs to ("" for the base class and className)
ClaimedCategory(f) ==
    CASE f \in {"maxWidth", "width", "align", "layout", "gap", "textAlign",
                "alignItems", "justifyContent", "flexDirection", "flexWrap"} ->
           "layout"
      [] f \in {"padding", "margin", "paddingX", "paddingY", "marginX", "marginY"} ->
           "spacing"
      [] f \in {"radius", "shadow", "background", "darkBackground"} -> "appearance"
      [] f \in {"border", "borderColor", "borderStyle"} -> "border"
      [] f \in {"height", "minHeight", "maxHeight"} -> "dimension"
      [] f \in {"overflow", "overflowX", "overflowY"} -> "overflow"
      [] f \in {"position", "zIndex"} -> "position"
      [] f = "opacity" -> "opacity"
      [] f \in {"transition", "hoverScale", "hoverShadow", "hoverBackground"} ->
           "hover"
      [] f \in {"modal", "modalSize", "modalPosition"} -> "state"
      [] OTHER -> ""
ClaimedOrder ==
    <<"layout", "spacing", "appearance", "border", "dimension", "overflow",
      "position", "opacity", "hover", "state">>

\* C19 as stated: along the class list the categories layout, spacing,
\* appearance, border, dimension, overflow, position, opacity,
\* transition/hover, state never go backwards.
C19_CanonicalOrder ==
    \A i, j \in DOMAIN classNames :
        (/\ i < j
         /\ ClaimedCategory(classNames[i].prop) # ""
         /\ ClaimedCategory(classNames[j].prop) # "") =>
            IndexOf(ClaimedOrder, ClaimedCategory(classNames[i].prop))
                <= IndexOf(ClaimedOrder, ClaimedCategory(classNames[j].prop))

\* the section of the array literal that a prop's token belongs to: max
\* width, width and align come first, apart from the other layout props
SectionOf(f) ==
    CASE f = "" -> "base"
      [] f \in {"maxWidth", "width", "align"} -> "sizing"
      [] f = "className" -> "custom"
      [] OTHER -> ClaimedCategory(f)
SectionOrder ==
    <<"base", "sizing", "spacing", "layout", "appearance", "border",
      "dimension", "overflow", "position", "opacity", "hover", "state", "custom">>

\* C19 (amended): along the class list the sections never go backwards in
\* the order base class, max-width/width/align, spacing, layout,
\* appearance, border, dimension, overflow, position, opacity,
\* transition/hover, modal, className, whatever the order in which the
\* props were supplied.
C19_SectionOrder ==
    \A i, j \in DOMAIN classNames :
        i < j =>
            IndexOf(SectionOrder, SectionOf(classNames[i].prop))
                <= IndexOf(SectionOrder, SectionOf(classNames[j].prop))

C19_Witness ==
    /\ classProps["layout"] = Str("grid") /\ classProps["shadow"] = Str("lg")
    /\ \E i, j, k \in DOMAIN classNames :
          /\ i < j /\ j < k
          /\ classNames[i].text = "responsive-container--padding"
          /\ classNames[j].text = "responsive-container--gap-4"
          /\ classNames[k].text = "responsive-container--shadow-lg"

Layout == IF classProps["layout"] = Undefined THEN "stack" ELSE classProps["layout"].s
FlexProps == {"alignItems", "justifyContent", "flexDirection", "flexWrap"}

\* C21: a token for alignItems, justifyContent, flexDirection or flexWrap is
\* in the class list only when the layout is flex; under stack or grid none
\* of the four is there, whatever the caller supplies for them.
C21_FlexOnlyTokens ==
    /\ \A f \in FlexProps : Emits(f) => Layout = "flex"
    /\ Layout # "flex" =>
          \A t \in Texts :
              t \notin {"responsive-container--align-items-center",
                        "responsive-container--justify-between",
                        "responsive-container--flex-row",
                        "responsive-container--flex-column",
                        "responsive-container--flex-wrap-wrap",
                        "responsive-container--flex-wrap-nowrap"}

C21_Witness ==
    /\ classProps["layout"] = Str("grid")
    /\ classProps["justifyContent"] = Str("between")
    /\ ~Emits("justifyContent") /\ ~Emits("flexDirection") /\ Emits("gap")

C23_ModalSuppresses ==
    IsModal =>
        /\ \A f \in {"maxWidth", "width", "align", "margin"} : ~Emits(f)
        /\ \A t \in Texts :
              t \notin {"responsive-container--full", "responsive-container--tablet",
                        "responsive-container--width-50",
                        "responsive-container--align-center",
                        "responsive-container--align-start",
                        "responsive-container--margin"}

C23_Witness ==
    /\ IsModal /\ classProps["width"] = Str("50")
    /\ ~Emits("width") /\ ~Emits("maxWidth") /\ ~Emits("align") /\ ~Emits("margin")
    /\ Emits("modal")

\* C24: in every position mode, with or without a preset, a numeric offset
\* is in the style object as '<n>px' and a string offset unchanged (under a
\* preset: for the sides the preset sets), and the margin that decides a
\* side is there as '<n>px' when numeric and unchanged when a string.
C24_NumbersArePixels ==
    /\ \A side \in Sides :
          (/\ posProps[side] # Undefined
           /\ UsesPreset(posProps) => side \in PresetSides(posProps["placement"].s))
              => posStyles[side] = Px(posProps[side])
    /\ posProps["margin"] # Undefined => posStyles["margin"] = Px(posProps["margin"])
    /\ posProps["margin"] = Undefined =>
          \A k \in MarginSides :
              /\ posProps[AxisOf(k)] # Undefined =>
                    posStyles[k] = Px(posProps[AxisOf(k)])
              /\ (posProps[AxisOf(k)] = Undefined /\ posProps[k] # Undefined) =>
                    posStyles[k] = Px(posProps[k])

\* C29: under position absolute or fixed and a named preset the style
\* object has no side other than the preset's two, also when the caller
\* supplies an offset for such a side.
C29_OnlyPresetSides ==
    UsesPreset(posProps) =>
        \A side \in Sides \ PresetSides(posProps["placement"].s) :
            posStyles[side] = Undefined

C29_Witness ==
    /\ posProps["position"] = Str("absolute")
    /\ posProps["placement"] = Str("top-left")
    /\ posProps["right"] = Num(10)
    /\ posStyles["right"] = Undefined /\ posStyles["bottom"] = Undefined
    /\ posStyles["top"] = Num(0) /\ posStyles["left"] = Num(0)

\* C25: with debounceMs > 0, of two clicks with no clock tick between them
\* at most one invokes onClick.
C25_ClicksDebounced ==
    [][(/\ debounceMs > 0
        /\ ev.op = "click" /\ calls # <<>>
        /\ ev'.op = "click") => calls' = <<>>]_vars

\* C28: a mounted button that shows no feedback and whose effects have run
\* displays the current variant and children props; while feedback shows, a
\* change of those props leaves the displayed variant and content alone.
C28_DisplayFollowsProps ==
    /\ [](mounted /\ ~isShowingFeedback /\ pendingEffects = {} =>
             currentVariant = variant /\ currentContent = children)
    /\ [][(ev'.op = "props" /\ isShowingFeedback) =>
             currentVariant' = currentVariant /\ currentContent' = currentContent]_vars

\* the revert timers of one kind that are pending
TimersOf(kind) == {k \in DOMAIN timers : timers[k].kind = kind}

\* C26: a feedback cycle starts only in the effect flush that follows a
\* render in which its flag rose (or the first render) with the button idle
\* and enabled; the end of a cycle marks neither trigger effect, so a flag
\* that stayed true through the cycle starts no second one.
C26_EdgeTriggered ==
    /\ [][Cardinality(TimersOf("success")') > Cardinality(TimersOf("success")) =>
            /\ "success" \in pendingEffects /\ ev.op \in {"init", "props"}
            /\ showSuccess /\ ~disabled /\ ~isShowingFeedback]_vars
    /\ [][Cardinality(TimersOf("error")') > Cardinality(TimersOf("error")) =>
            /\ "error" \in pendingEffects /\ ev.op \in {"init", "props"}
            /\ showError /\ ~disabled /\ ~isShowingFeedback]_vars
    /\ [][ev'.op = "props" =>
            /\ "success" \in pendingEffects' <=> showSuccess' # showSuccess
            /\ "error" \in pendingEffects' <=> showError' # showError]_vars
    /\ [][ev'.op = "expire" =>
            pendingEffects' \cap {"success", "error"} = {}]_vars

C26_Witness ==
    /\ ev.op = "expire" /\ ev.kind = "success"
    /\ mounted /\ ~disabled /\ showSuccess /\ ~showError
    /\ ~isShowingFeedback /\ timers = <<>>
    /\ pendingEffects = {"reset"}

ListenersOf(i) == {k \in DOMAIN keydownListeners : keydownListeners[k].owner = i}

\* the instance is mounted with modal, modalOpen and modalCloseOnEscape true
\* and an onModalClose
ListensForEscape(i) ==
    /\ container[i].mounted
    /\ container[i].props.modal /\ container[i].props.modalOpen
    /\ container[i].props.modalCloseOnEscape
    /\ Supplied(container[i].props.onModalClose)

\* C27: between renders every instance has at most one keydown listener on
\* the document, has one exactly when it is mounted with modal, modalOpen
\* and modalCloseOnEscape true and onModalClose supplied, and that listener
\* calls the onModalClose of the latest render; an Escape keydown calls
\* exactly those callbacks.
C27_OneCurrentListener ==
    /\ \A i \in Instances :
          /\ Cardinality(ListenersOf(i)) <= 1
          /\ HasListener(i) <=> ListensForEscape(i)
          /\ \A k \in ListenersOf(i) :
                keydownListeners[k].onModalClose = container[i].props.onModalClose
    /\ (ev.op = "keydown" /\ ev.key = "Escape") =>
          /\ Len(calls) = Cardinality({i \in Instances : ListensForEscape(i)})
          /\ \A k \in DOMAIN calls :
                calls[k].cb = container[calls[k].inst].props.onModalClose

C27_Witness ==
    /\ ev.op = "keydown" /\ ev.key = "Escape"
    /\ container["m1"].props.onModalClose = "cbB"
    /\ container["m2"].props.onModalClose = "cbA"
    /\ calls = <<[fn |-> "onModalClose", inst |-> "m2", cb |-> "cbA"],
                 [fn |-> "onModalClose", inst |-> "m1", cb |-> "cbB"]>>


\* every state update of the hook has been rendered and its effects have run
DarkSettled == darkMounted /\ darkEffects = {} /\ queuedDarkMode = isDarkMode

\* C30: once every state change of useDarkMode has settled, the document root
\* carries "dark" exactly when isDarkMode is true and "auto-dark" exactly when
\* it is false, whatever toggles and system colour-scheme changes came before.
C30_RootFollowsState ==
    DarkSettled =>
        /\ ("dark" \in rootClasses) <=> isDarkMode
        /\ ("auto-dark" \in rootClasses) <=> ~isDarkMode

\* the class effect has just run after a state change and the hook has left
\* the system preference behind
C30_Witness ==
    /\ DarkSettled
    /\ ev.op = "darkFlush" /\ ev.ran = {"class"}
    /\ "handleChange" \in mediaListeners
    /\ isDarkMode /\ ~prefersDark
    /\ rootClasses = {"dark", "theme"}

====
